---------------------------- MODULE Spec2Model ----------------------------
(***************************************************************************)
(* Model of buildAndWatch.Run (the build / watch / restart supervisor) and *)
(* of cmdProcess (Start / Stop / Wait).                                    *)
(*                                                                         *)
(* Tasks of the program and where their position is kept:                  *)
(*   control loop   g.Go(func) of Run, lines 79-149        pc              *)
(*   relay          g.Go(func) of Run, lines 152-170       rpc             *)
(*   canceller      go func of Run, lines 172-175          cpc             *)
(*   Wait task      go func, lines 106-108, one per started process: it    *)
(*                  completes with the exit of its process                 *)
(*   kill timer     go func of cmdProcess.Stop, one per Stop               *)
(* Channels: abort (closed or not), restart (capacity 1), done (capacity 1,*)
(* a fresh one per iteration of the control loop), watcher.Events and      *)
(* watcher.Errors (owned by the notification source).                      *)
(* The program is followed until Run returns.                              *)
(***************************************************************************)
EXTENDS Integers, Sequences, FiniteSets, TLC

\* ------------------------------------------------------------------ bounds
\* change notifications the notification source emits in one behaviour
MaxEvents == 2
\* error notifications the notification source emits in one behaviour
MaxErrors == 1
\* a process is started at most once per iteration; iterations after the
\* first each consume a restart signal before they can start a process
MaxProcs == MaxEvents + 1

\* --------------------------------------------------------- program constants
\* capacity of the restart channel: make(chan struct{}, 1)
RestartCap == 1
\* the absorb loop's quiet window, time.After(50 * time.Millisecond), in ticks
DebounceTicks == 2

\* exit codes a process may end with on its own; 0 is success
ExitCodes == {0, 1}
\* exit code reported for a process ended by a signal
KilledCode == -1

\* ------------------------------------------------------------------ errors
Nil == [kind |-> "nil", code |-> 0]
BuildError == [kind |-> "build error", code |-> 0]
StartError == [kind |-> "start error", code |-> 0]
ExitError(c) == [kind |-> "exit error", code |-> c]

VARIABLES
    watch,          \* opts.Watch
    cancelled,      \* ctx.Done() is closed
    buildOK,        \* len(result.Errors) == 0
    waitForChange,  \* local of the control loop
    pc,             \* position of the control loop
    cur,            \* process started in this iteration (0: proc.cmd.Process == nil)
    done,           \* this iteration's done channel
    restart,        \* number of signals in the restart channel
    abortCloses,    \* number of close(abort) executed
    delay,          \* ticks left before the absorb loop's delay channel fires
    rpc,            \* position of the relay
    cpc,            \* position of the one-shot canceller
    events,         \* change notifications waiting on watcher.Events
    wclosed,        \* watcher.Events and watcher.Errors are closed
    emitted,        \* change notifications emitted so far
    errEmitted,     \* error notifications the relay has received
    procs,          \* the processes started so far
    nStarted,       \* number of successful proc.Start()
    gErr,           \* errgroup: first non-nil error returned by a task
    runReturned,    \* Run has returned
    runResult,      \* what Run returned
    startCalls,     \* history: number of proc.Start() calls
    lateKill,       \* history: SIGKILL was sent for a process that had exited
    rebuildCalls,   \* history: number of result.Rebuild() calls
    burst,          \* history: the train of change notifications being followed
    burstN,         \* history: notifications in the train
    sinceLast,      \* history: ticks since the train's last notification
    cycStops,       \* history: restart-path Stop calls since the train began
    cycRebuilds,    \* history: Rebuild calls since the train began
    cycStarts       \* history: Start calls since the train began

loopVars == <<buildOK, waitForChange, pc, cur, done, delay, nStarted>>
relayVars == <<rpc, cpc>>
srcVars == <<events, wclosed, emitted, errEmitted>>
histVars == <<startCalls, lateKill, rebuildCalls>>
burstVars == <<burst, burstN, sinceLast, cycStops, cycRebuilds, cycStarts>>
vars == <<watch, cancelled, buildOK, waitForChange, pc, cur, done, restart,
          abortCloses, delay, rpc, cpc, events, wclosed, emitted,
          errEmitted, procs, nStarted, gErr, runReturned, runResult,
          startCalls, lateKill, rebuildCalls, burst, burstN, sinceLast,
          cycStops, cycRebuilds, cycStarts>>

Procs == 1..MaxProcs

\* A process that was never started. st: none, running, exited; code: the
\* exit status while this iteration's done channel can report it; term: the
\* SIGTERM of Stop reached the running process; kill: the kill timer of Stop
\* (off, armed, sent); observed: the control loop received the Wait result.
NoProc == [st |-> "none", code |-> 0, term |-> FALSE, kill |-> "off",
           observed |-> FALSE]

abortClosed == abortCloses > 0

Min(a, b) == IF a < b THEN a ELSE b

\* ------------------------------------------------------------ cmdProcess
\* cmdProcess.Wait: nil for exit status 0, the exit error otherwise
WaitResult(code) == IF code = 0 THEN Nil ELSE ExitError(code)

\* What cmdProcess.Stop may return for process p (TRUE: nil). A process that
\* was never started (proc.cmd.Process == nil) makes Stop return nil before
\* any signal is sent. Otherwise Stop returns what syscall.Kill(-pid, SIGTERM)
\* returns: nil, or the error of a signal that could not be delivered. The
\* code draws no conclusion about the process from the error, and neither
\* does the model. (The branch for runtime.GOOS == "windows" is not followed.)
StopOutcomes(p) == IF p = 0 THEN {TRUE} ELSE BOOLEAN

\* Stop that sends the SIGTERM and starts no kill timer
AfterStopNoTimer(ps, p, delivered) ==
    IF p = 0 THEN ps
    ELSE [ps EXCEPT ![p].term = @ \/ (delivered /\ ps[p].st = "running")]

\* cmdProcess.Stop on process p, the SIGTERM having been delivered or not:
\* the kill timer is started before the signal is sent, whatever it returns.
AfterStop(ps, p, delivered) ==
    IF p = 0 THEN ps
    ELSE [ps EXCEPT ![p].term = @ \/ (delivered /\ ps[p].st = "running"),
                    ![p].kill = IF @ = "off" THEN "armed" ELSE @]

\* The control loop has received the Wait result of process p from done. In
\* watch mode the result is only logged, and the exit status is forgotten.
Observed(ps, p) ==
    IF p = 0 THEN ps
    ELSE [ps EXCEPT ![p].observed = TRUE,
                    ![p].code = IF watch THEN 0 ELSE @]

\* The done channel of the iteration is dropped with the iteration: what the
\* Wait task of its process sent or will send on it is lost.
Dropped(ps, p) ==
    IF p = 0 THEN ps ELSE [ps EXCEPT ![p].code = 0]

\* errgroup.Group: the first non-nil error a task returns is kept
GroupErr(old, err) == IF old = Nil THEN err ELSE old

\* ------------------------------------------------------------------- Init
Init ==
    /\ watch \in BOOLEAN
    /\ buildOK \in BOOLEAN
    /\ cancelled = FALSE
    /\ waitForChange = FALSE
    /\ pc = "init"
    /\ cur = 0
    /\ done = << >>
    /\ restart = 0
    /\ abortCloses = 0
    /\ delay = 0
    /\ rpc = IF watch THEN "select" ELSE "absent"
    /\ cpc = IF watch THEN "absent" ELSE "wait"
    /\ events = 0
    /\ wclosed = FALSE
    /\ emitted = 0
    /\ errEmitted = 0
    /\ procs = [p \in Procs |-> NoProc]
    /\ nStarted = 0
    /\ gErr = Nil
    /\ runReturned = FALSE
    /\ runResult = Nil
    /\ startCalls = 0
    /\ lateKill = FALSE
    /\ rebuildCalls = 0
    /\ burst = "none"
    /\ burstN = 0
    /\ sinceLast = 0
    /\ cycStops = 0
    /\ cycRebuilds = 0
    /\ cycStarts = 0


\* ------------------------------------------------------------ control loop
\* a task of the errgroup returns err
LoopReturn(err) ==
    /\ pc' = "returned"
    /\ gErr' = GroupErr(gErr, err)

\* shouldStart that does not look at the build outcome
ShouldStartIgnoresBuild(ok, wfc) == ~wfc

\* shouldStart := buildOK && !waitForChange
ShouldStart(ok, wfc) == ok /\ ~wfc

\* The train of notifications is followed no further when the outer select
\* takes abort, or the exit of the process, before the train's restart signal:
\* the signal then meets no running process.
Preempted == burst = "open" /\ cycStops = 0

PreemptBurst ==
    /\ burst' = IF Preempted THEN "off" ELSE burst
    /\ burstN' = IF Preempted THEN 0 ELSE burstN
    /\ sinceLast' = IF Preempted THEN 0 ELSE sinceLast
    /\ UNCHANGED <<cycStops, cycRebuilds, cycStarts>>

\* history kept with a call of proc.Start()
NoteStart ==
    /\ startCalls' = startCalls + 1
    /\ cycStarts' = IF burst = "open" THEN cycStarts + 1 ELSE cycStarts

\* lines 80-84: a failed first build ends the loop in one-shot mode only
LoopInit ==
    /\ pc = "init"
    /\ IF ~buildOK /\ ~watch
       THEN LoopReturn(BuildError)
       ELSE pc' = "top" /\ gErr' = gErr
    /\ UNCHANGED <<watch, cancelled, buildOK, waitForChange, cur, done, restart,
                   abortCloses, delay, relayVars, srcVars, procs, nStarted,
                   runReturned, runResult, histVars, burstVars>>

\* lines 88-110: a new process handle and done channel; Start if shouldStart.
\* A successful Start spawns the task that will send proc.Wait() on done.
TopStart ==
    /\ pc = "top"
    /\ done' = << >>
    /\ IF ShouldStart(buildOK, waitForChange)
       THEN /\ NoteStart
            /\ \E ok \in BOOLEAN :
                 IF ok
                 THEN /\ nStarted' = nStarted + 1
                      /\ cur' = nStarted + 1
                      /\ procs' = [Dropped(procs, cur) EXCEPT ![nStarted + 1] =
                                     [NoProc EXCEPT !.st = "running"]]
                      /\ pc' = "select"
                      /\ UNCHANGED <<waitForChange, gErr>>
                 ELSE /\ cur' = 0
                      /\ procs' = Dropped(procs, cur)
                      /\ nStarted' = nStarted
                      /\ IF ~watch
                         THEN LoopReturn(StartError) /\ UNCHANGED waitForChange
                         ELSE /\ waitForChange' = TRUE
                              /\ pc' = "select"
                              /\ gErr' = gErr
       ELSE /\ cur' = 0
            /\ procs' = Dropped(procs, cur)
            /\ pc' = "select"
            /\ UNCHANGED <<waitForChange, nStarted, gErr, startCalls,
                           cycStarts>>
    /\ UNCHANGED <<watch, cancelled, buildOK, restart, abortCloses, delay,
                   relayVars, srcVars, runReturned, runResult, lateKill,
                   rebuildCalls, burst, burstN, sinceLast, cycStops,
                   cycRebuilds>>

\* lines 112-118: case <-abort: Stop; waitDone unless Stop failed; return nil
SelAbort ==
    /\ pc = "select"
    /\ abortClosed
    /\ \E ok \in StopOutcomes(cur) :
         /\ procs' = AfterStop(procs, cur, ok)
         /\ IF ok
            THEN pc' = "abortWait" /\ gErr' = gErr
            ELSE LoopReturn(Nil)
    /\ PreemptBurst
    /\ UNCHANGED <<watch, cancelled, buildOK, waitForChange, cur, done, restart,
                   abortCloses, delay, relayVars, srcVars, nStarted,
                   runReturned, runResult, histVars>>

\* lines 116, 118: waitDone() of the abort case, then return nil
AbortWait ==
    /\ pc = "abortWait"
    /\ done /= << >>
    /\ done' = << >>
    /\ procs' = Observed(procs, cur)
    /\ LoopReturn(Nil)
    /\ UNCHANGED <<watch, cancelled, buildOK, waitForChange, cur, restart,
                   abortCloses, delay, relayVars, srcVars, nStarted,
                   runReturned, runResult, histVars, burstVars>>

\* SelRestart with no quiet window: the delay of the absorb loop fires at once
SelRestartNoDebounce ==
    /\ pc = "select"
    /\ restart > 0
    /\ restart' = restart - 1
    /\ pc' = "absorb"
    /\ delay' = 0
    /\ UNCHANGED <<watch, cancelled, buildOK, waitForChange, cur, done,
                   abortCloses, relayVars, srcVars, procs, nStarted, gErr,
                   runReturned, runResult, histVars, burstVars>>

\* line 119: case <-restart of the outer select; the absorb loop arms its delay
SelRestart ==
    /\ pc = "select"
    /\ restart > 0
    /\ restart' = restart - 1
    /\ pc' = "absorb"
    /\ delay' = DebounceTicks
    /\ UNCHANGED <<watch, cancelled, buildOK, waitForChange, cur, done,
                   abortCloses, relayVars, srcVars, procs, nStarted, gErr,
                   runReturned, runResult, histVars, burstVars>>

\* lines 121-125: case <-restart of the absorb loop: a new delay is armed
AbsorbRestart ==
    /\ pc = "absorb"
    /\ restart > 0
    /\ restart' = restart - 1
    /\ delay' = DebounceTicks
    /\ UNCHANGED <<watch, cancelled, buildOK, waitForChange, pc, cur, done,
                   abortCloses, relayVars, srcVars, procs, nStarted, gErr,
                   runReturned, runResult, histVars, burstVars>>

\* lines 126-134: case <-delay: break loop; Stop; waitDone unless Stop failed
AbsorbDelay ==
    /\ pc = "absorb"
    /\ delay = 0
    /\ \E ok \in StopOutcomes(cur) :
         /\ procs' = AfterStop(procs, cur, ok)
         /\ pc' = IF ok THEN "restartWait" ELSE "rebuild"
    /\ cycStops' = IF burst = "open" THEN cycStops + 1 ELSE cycStops
    /\ UNCHANGED <<watch, cancelled, buildOK, waitForChange, cur, done, restart,
                   abortCloses, delay, relayVars, srcVars, nStarted, gErr,
                   runReturned, runResult, histVars, burst, burstN, sinceLast,
                   cycRebuilds, cycStarts>>

\* line 133: waitDone() of the restart case
RestartWait ==
    /\ pc = "restartWait"
    /\ done /= << >>
    /\ done' = << >>
    /\ procs' = Observed(procs, cur)
    /\ pc' = "rebuild"
    /\ UNCHANGED <<watch, cancelled, buildOK, waitForChange, cur, restart,
                   abortCloses, delay, relayVars, srcVars, nStarted, gErr,
                   runReturned, runResult, histVars, burstVars>>

\* lines 135-136: result = result.Rebuild(); waitForChange = false
Rebuild ==
    /\ pc = "rebuild"
    /\ \E ok \in BOOLEAN : buildOK' = ok
    /\ waitForChange' = FALSE
    /\ pc' = "top"
    /\ rebuildCalls' = rebuildCalls + 1
    /\ cycRebuilds' = IF burst = "open" THEN cycRebuilds + 1 ELSE cycRebuilds
    /\ UNCHANGED <<watch, cancelled, cur, done, restart, abortCloses, delay,
                   relayVars, srcVars, procs, nStarted, gErr, runReturned,
                   runResult, startCalls, lateKill, burst, burstN, sinceLast,
                   cycStops, cycStarts>>

\* SelDone with the result of Wait dropped in one-shot mode
SelDoneDropsResult ==
    /\ pc = "select"
    /\ done /= << >>
    /\ done' = << >>
    /\ procs' = Observed(procs, cur)
    /\ IF ~watch
       THEN LoopReturn(Nil) /\ UNCHANGED waitForChange
       ELSE /\ waitForChange' = TRUE
            /\ pc' = "top"
            /\ gErr' = gErr
    /\ PreemptBurst
    /\ UNCHANGED <<watch, cancelled, buildOK, cur, restart, abortCloses, delay,
                   relayVars, srcVars, nStarted, runReturned, runResult,
                   histVars>>

\* SelDone that does not set waitForChange in watch mode
SelDoneRestarts ==
    /\ pc = "select"
    /\ done /= << >>
    /\ done' = << >>
    /\ procs' = Observed(procs, cur)
    /\ IF ~watch
       THEN LoopReturn(Head(done)) /\ UNCHANGED waitForChange
       ELSE /\ waitForChange' = FALSE
            /\ pc' = "top"
            /\ gErr' = gErr
    /\ PreemptBurst
    /\ UNCHANGED <<watch, cancelled, buildOK, cur, restart, abortCloses, delay,
                   relayVars, srcVars, nStarted, runReturned, runResult,
                   histVars>>

\* SelDone that ends the loop with the result of Wait in watch mode too
SelDoneReturnsInWatch ==
    /\ pc = "select"
    /\ done /= << >>
    /\ done' = << >>
    /\ procs' = Observed(procs, cur)
    /\ LoopReturn(Head(done))
    /\ PreemptBurst
    /\ UNCHANGED <<watch, cancelled, buildOK, waitForChange, cur, restart,
                   abortCloses, delay, relayVars, srcVars, nStarted,
                   runReturned, runResult, histVars>>

\* lines 137-147: case err := <-done: the result in one-shot mode, else wait
SelDone ==
    /\ pc = "select"
    /\ done /= << >>
    /\ done' = << >>
    /\ procs' = Observed(procs, cur)
    /\ IF ~watch
       THEN LoopReturn(Head(done)) /\ UNCHANGED waitForChange
       ELSE /\ waitForChange' = TRUE
            /\ pc' = "top"
            /\ gErr' = gErr
    /\ PreemptBurst
    /\ UNCHANGED <<watch, cancelled, buildOK, cur, restart, abortCloses, delay,
                   relayVars, srcVars, nStarted, runReturned, runResult,
                   histVars>>

ControlLoop ==
    \/ LoopInit
    \/ TopStart
    \/ SelAbort
    \/ AbortWait
    \/ SelRestart
    \/ AbsorbRestart
    \/ AbsorbDelay
    \/ RestartWait
    \/ Rebuild
    \/ SelDone

\* ------------------------------------------------------------------- relay
\* close(abort)
CloseAbort == abortCloses' = abortCloses + 1

\* lines 155-159: a change notification is received and sent on restart; the
\* send completes at once when the channel has room and blocks the relay
\* otherwise
RelayEvent ==
    /\ rpc = "select"
    /\ events > 0
    /\ events' = events - 1
    /\ IF restart < RestartCap
       THEN restart' = restart + 1 /\ rpc' = "select"
       ELSE restart' = restart /\ rpc' = "blocked"
    /\ UNCHANGED <<watch, cancelled, loopVars, abortCloses, cpc,
                   wclosed, emitted, errEmitted, procs, gErr, runReturned,
                   runResult, histVars, burstVars>>

\* line 159: the blocked send completes once the control loop has received
RelayUnblock ==
    /\ rpc = "blocked"
    /\ restart < RestartCap
    /\ restart' = restart + 1
    /\ rpc' = "select"
    /\ UNCHANGED <<watch, cancelled, loopVars, abortCloses, cpc, srcVars,
                   procs, gErr, runReturned, runResult, histVars, burstVars>>

\* lines 155-158: watcher.Events is closed: return nil
RelayEventsClosed ==
    /\ rpc = "select"
    /\ wclosed
    /\ events = 0
    /\ rpc' = "returned"
    /\ gErr' = GroupErr(gErr, Nil)
    /\ UNCHANGED <<watch, cancelled, loopVars, restart, abortCloses, cpc,
                   srcVars, procs, runReturned, runResult, histVars, burstVars>>

\* lines 160-164 with ok true: the notification source hands an error to the
\* relay on watcher.Errors; the relay does nothing with it and selects again
RelayError ==
    /\ rpc = "select"
    /\ ~wclosed
    /\ errEmitted < MaxErrors
    /\ errEmitted' = errEmitted + 1
    /\ UNCHANGED <<watch, cancelled, loopVars, restart, abortCloses, relayVars,
                   events, wclosed, emitted, procs, gErr, runReturned,
                   runResult, histVars, burstVars>>

\* lines 160-164 with ok false: watcher.Errors is closed: close(abort) and
\* return err, the zero value received from the closed channel
RelayErrorsClosed ==
    /\ rpc = "select"
    /\ wclosed
    /\ CloseAbort
    /\ rpc' = "returned"
    /\ gErr' = GroupErr(gErr, Nil)
    /\ UNCHANGED <<watch, cancelled, loopVars, restart, cpc, srcVars, procs,
                   runReturned, runResult, histVars, burstVars>>

\* RelayCtxDone that closes abort and goes on selecting
RelayCtxDoneKeepsRunning ==
    /\ rpc = "select"
    /\ cancelled
    /\ CloseAbort
    /\ UNCHANGED <<watch, cancelled, loopVars, restart, relayVars, srcVars,
                   procs, gErr, runReturned, runResult, histVars, burstVars>>

\* lines 165-167: case <-ctx.Done(): close(abort); return nil
RelayCtxDone ==
    /\ rpc = "select"
    /\ cancelled
    /\ CloseAbort
    /\ rpc' = "returned"
    /\ gErr' = GroupErr(gErr, Nil)
    /\ UNCHANGED <<watch, cancelled, loopVars, restart, cpc, srcVars, procs,
                   runReturned, runResult, histVars, burstVars>>

Relay ==
    \/ RelayEvent
    \/ RelayUnblock
    \/ RelayEventsClosed
    \/ RelayError
    \/ RelayErrorsClosed
    \/ RelayCtxDone

\* lines 172-175, one-shot mode: <-ctx.Done(); close(abort)
CancelTask ==
    /\ cpc = "wait"
    /\ cancelled
    /\ CloseAbort
    /\ cpc' = "returned"
    /\ UNCHANGED <<watch, cancelled, loopVars, restart, rpc, srcVars, procs,
                   gErr, runReturned, runResult, histVars, burstVars>>

\* line 178: g.Wait() returns once the control loop and the relay have returned
RunReturn ==
    /\ ~runReturned
    /\ pc = "returned"
    /\ watch => rpc = "returned"
    /\ runReturned' = TRUE
    /\ runResult' = gErr
    /\ UNCHANGED <<watch, cancelled, loopVars, restart, abortCloses, relayVars,
                   srcVars, procs, gErr, histVars, burstVars>>

\* ------------------------------------------------- processes and their tasks
\* Process p ends with exit code c. Its Wait task (lines 106-108) is blocked
\* in cmd.Wait() and its send on the capacity-1 done channel cannot block, so
\* done <- proc.Wait() completes with the exit. The channel is the one of the
\* iteration that started p: a later iteration never reads it, and the exit
\* status sent on it is lost.
Exited(ps, p, c) ==
    [ps EXCEPT ![p].st = "exited",
               ![p].term = FALSE,
               ![p].code = IF p = cur THEN c ELSE 0]

\* a running process ends on its own account, or because of the SIGTERM
ProcExit(p) ==
    /\ ~runReturned
    /\ procs[p].st = "running"
    /\ \E c \in ExitCodes :
         /\ procs' = Exited(procs, p, c)
         /\ done' = IF p = cur THEN <<WaitResult(c)>> ELSE done
    /\ UNCHANGED <<watch, cancelled, buildOK, waitForChange, pc, cur, delay,
                   nStarted, restart, abortCloses, relayVars, srcVars, gErr,
                   runReturned, runResult, histVars, burstVars>>

\* run.go lines 148-152: after maxProcStopWait the process group is sent
\* SIGKILL, whatever has become of the process. The signal reaches a running
\* process whose group took the SIGTERM; when the SIGTERM could not be sent
\* the SIGKILL may fail as well.
KillFire(p) ==
    /\ ~runReturned
    /\ procs[p].kill = "armed"
    /\ IF procs[p].st = "running"
       THEN /\ \E hit \in (IF procs[p].term THEN {TRUE} ELSE BOOLEAN) :
                 IF hit
                 THEN /\ procs' = [Exited(procs, p, KilledCode)
                                     EXCEPT ![p].kill = "sent"]
                      /\ done' = IF p = cur
                                 THEN <<WaitResult(KilledCode)>> ELSE done
                 ELSE /\ procs' = [procs EXCEPT ![p].kill = "sent"]
                      /\ done' = done
            /\ lateKill' = lateKill
       ELSE /\ procs' = [procs EXCEPT ![p].kill = "sent"]
            /\ done' = done
            /\ lateKill' = TRUE
    /\ UNCHANGED <<watch, cancelled, buildOK, waitForChange, pc, cur, delay,
                   nStarted, restart, abortCloses, relayVars, srcVars, gErr,
                   runReturned, runResult, startCalls, rebuildCalls,
                   burstVars>>

\* ------------------------------------------------------------- environment
\* ctx is cancelled by the caller of Run
Cancel ==
    /\ ~cancelled
    /\ ~runReturned
    /\ cancelled' = TRUE
    /\ UNCHANGED <<watch, loopVars, restart, abortCloses, relayVars, srcVars,
                   procs, gErr, runReturned, runResult, histVars, burstVars>>

\* The first notification opens the train that is followed when it finds the
\* control loop in its select with a running process and nothing pending. A
\* notification outside the window of the one before ends the following.
OpensBurst ==
    /\ pc = "select"
    /\ cur /= 0
    /\ procs[cur].st = "running"
    /\ done = << >>
    /\ restart = 0
    /\ events = 0
    /\ rpc = "select"

\* the notification source reports a change of a watched file
ChangeEvent ==
    /\ watch
    /\ ~wclosed
    /\ ~runReturned
    /\ emitted < MaxEvents
    /\ emitted' = emitted + 1
    /\ events' = events + 1
    /\ burst' = CASE burst = "none" -> IF OpensBurst THEN "open" ELSE "off"
                  [] burst = "open" ->
                       IF sinceLast < DebounceTicks THEN "open" ELSE "off"
                  [] OTHER -> burst
    /\ burstN' = IF burst' = "open" THEN burstN + 1 ELSE 0
    /\ sinceLast' = 0
    /\ cycStops' = IF burst' = "open" THEN cycStops ELSE 0
    /\ cycRebuilds' = IF burst' = "open" THEN cycRebuilds ELSE 0
    /\ cycStarts' = IF burst' = "open" THEN cycStarts ELSE 0
    /\ UNCHANGED <<watch, cancelled, loopVars, restart, abortCloses, relayVars,
                   wclosed, errEmitted, procs, gErr, runReturned, runResult,
                   histVars>>

\* the notification source ends and closes both of its channels; it is the
\* task that sends on them, so nothing is waiting to be sent
WatcherClose ==
    /\ watch
    /\ ~wclosed
    /\ ~runReturned
    /\ events = 0
    /\ wclosed' = TRUE
    /\ UNCHANGED <<watch, cancelled, loopVars, restart, abortCloses, relayVars,
                   events, emitted, errEmitted, procs, gErr,
                   runReturned, runResult, histVars, burstVars>>

\* -------------------------------------------------------------------- time
\* one tick of time passes: the armed delay of the absorb loop runs down
Tick ==
    /\ delay > 0 \/ (burst = "open" /\ sinceLast < DebounceTicks)
    /\ delay' = IF delay > 0 THEN delay - 1 ELSE 0
    /\ sinceLast' = IF burst = "open"
                    THEN Min(sinceLast + 1, DebounceTicks) ELSE sinceLast
    /\ UNCHANGED <<watch, cancelled, buildOK, waitForChange, pc, cur, done,
                   nStarted, restart, abortCloses, relayVars, srcVars, procs,
                   gErr, runReturned, runResult, histVars, burst, burstN,
                   cycStops, cycRebuilds, cycStarts>>

\* a channel operation that is ready happens before time passes
Urgent ==
    \/ rpc = "select" /\ events > 0
    \/ rpc = "blocked" /\ restart < RestartCap
    \/ restart > 0 /\ pc \in {"select", "absorb"}

\* a tick of time when the tasks are scheduled promptly
TickPrompt ==
    /\ ~Urgent
    /\ Tick

\* ----------------------------------------------------------- specifications
Steps ==
    \/ ControlLoop
    \/ Relay
    \/ CancelTask
    \/ RunReturn
    \/ \E p \in Procs : ProcExit(p)
    \/ \E p \in Procs : KillFire(p)
    \/ Cancel
    \/ ChangeEvent
    \/ WatcherClose

Next == Steps \/ Tick

NextTimed == Steps \/ TickPrompt

\* every interleaving of the tasks; the delay may fire at any moment
Spec == Init /\ [][Next]_vars

\* the tasks are scheduled promptly with respect to the debounce window
TimedSpec == Init /\ [][NextTimed]_vars

\* the Go scheduler runs every task that can take a step; timers fire. The
\* environment (changes, errors, cancellation, a process ending on its own)
\* owes nothing.
Fairness ==
    /\ WF_vars(ControlLoop)
    /\ WF_vars(Relay)
    /\ WF_vars(CancelTask)
    /\ WF_vars(RunReturn)
    /\ WF_vars(Tick)
    /\ \A p \in Procs : WF_vars(KillFire(p))

FairSpec == Init /\ [][Next]_vars /\ Fairness

\* ------------------------------------------------------------------ claims
Running == {p \in Procs : procs[p].st = "running"}

\* C1: at no point are two processes started by the control loop running at
\* the same time.
C1_AtMostOneRunning == Cardinality(Running) <= 1

\* C2: every Start but the first comes after a Stop request on the process
\* started before it and after that process's Wait result was received from
\* done, whatever Stop returned.
C2_StartAfterConfirmedStop ==
    \A p \in Procs :
        (p > 1 /\ procs[p].st /= "none") =>
            (procs[p - 1].kill /= "off" /\ procs[p - 1].observed)

\* C3: once abort is closed the control loop never calls Start again.
C3_NoStartAfterAbort ==
    [][(abortClosed /\ startCalls > 0) => startCalls' = startCalls]_vars

\* C4: the relay is never blocked on its send of a restart signal.
C4_RelayNeverBlocks == rpc /= "blocked"

\* C6: when Run has returned, no process it started is still running.
C6_NoLiveProcessAtReturn == runReturned => Running = {}

\* the train's window has elapsed and every signal of it has been received
Quiet ==
    /\ pc = "select"
    /\ sinceLast = DebounceTicks
    /\ events = 0
    /\ restart = 0
    /\ rpc /= "blocked"

\* C5: change notifications that reach a control loop with a running
\* process, each within the quiet window of the one before, cause one Stop
\* (of a started process), one Rebuild and one Start (none when that rebuild
\* fails), however many they are.
C5_OneCyclePerBurst ==
    burst = "open" =>
        /\ cycRebuilds = 0 => cur /= 0
        /\ cycStops <= 1
        /\ cycRebuilds <= 1
        /\ cycStarts <= 1
        /\ Quiet => /\ cycStops = 1
                    /\ cycRebuilds = 1
                    /\ cycStarts = IF buildOK THEN 1 ELSE 0

C5_Witness ==
    /\ burst = "open"
    /\ burstN = MaxEvents
    /\ Quiet
    /\ cycRebuilds = 1
    /\ cycStarts = 1
    /\ cur /= 0

\* C7: cancellation that finds a process running makes the control loop stop
\* it and wait for it, and Run returns nil.
C7_CancelStopsAndReturns ==
    (watch /\ cancelled /\ ~wclosed /\ abortClosed /\ pc = "select"
       /\ cur /= 0 /\ procs[cur].st = "running")
    ~> (runReturned /\ runResult = Nil)

\* C8: a restart signal received with no live process leads to Rebuild.
C8_RestartLeadsToRebuild ==
    (watch /\ pc = "absorb" /\ cur = 0) ~> (pc = "rebuild")

\* C9: abort raised while no process was started in the iteration ends the
\* control loop and Run returns.
C9_AbortInWaitingTerminates ==
    (watch /\ abortClosed /\ rpc = "returned" /\ restart = 0
       /\ pc = "select" /\ cur = 0)
    ~> runReturned

\* C10: one-shot mode without cancellation: "build error" and no Start when
\* the build failed; the start error when Start failed; else the result of
\* Wait: nil on exit 0, the exit error with the code otherwise.
C10_OneShotResult ==
    (~watch /\ ~cancelled /\ runReturned) =>
        /\ startCalls <= 1
        /\ ~buildOK => (runResult = BuildError /\ startCalls = 0)
        /\ (buildOK /\ nStarted = 0) => (runResult = StartError /\ startCalls = 1)
        /\ nStarted = 1 =>
             /\ procs[1].st = "exited"
             /\ procs[1].code = 0 => runResult = Nil
             /\ procs[1].code /= 0 =>
                  runResult = [kind |-> "exit error", code |-> procs[1].code]

C10_Witness ==
    /\ ~watch
    /\ ~cancelled
    /\ runReturned
    /\ nStarted = 1
    /\ procs[1].code = 1
    /\ runResult = [kind |-> "exit error", code |-> 1]

\* C11: an error notification received by the relay closes abort and ends the
\* relay, and Run returns a non-nil error.
C11_ErrorEventAborts ==
    errEmitted > 0 =>
        /\ abortClosed
        /\ rpc = "returned"
        /\ runReturned => runResult /= Nil

C13_ReturnsAfterAllTasks ==
    runReturned =>
        /\ pc = "returned"
        /\ rpc \in {"returned", "absent"}
        /\ cpc \in {"returned", "absent"}
        /\ \A p \in Procs : procs[p].st /= "running"
        /\ runResult = gErr

\* C14: cancellation of ctx at any point leads to abort being closed and to
\* Run returning.
C14_CancelLeadsToReturn == cancelled ~> (abortClosed /\ runReturned)

\* C15: Rebuild is called only after a restart signal was consumed: never
\* more Rebuild calls than change notifications received by the relay, no
\* Start but the first without a Rebuild before it (so none caused by the
\* exit of a process), and no Rebuild in one-shot mode.
C15_RebuildOnlyOnRestart ==
    /\ rebuildCalls <= emitted - events
    /\ startCalls <= rebuildCalls + 1
    /\ ~watch => rebuildCalls = 0

C15_Witness ==
    /\ watch
    /\ pc = "select"
    /\ waitForChange
    /\ procs[1].st = "exited"
    /\ procs[1].observed
    /\ procs[1].kill = "off"
    /\ rebuildCalls = 0
    /\ startCalls = 1

\* C16: proc.Start() is called only when the latest build or rebuild
\* succeeded.
C16_StartOnlyAfterGoodBuild ==
    [][startCalls' > startCalls => buildOK]_vars

C16_Witness ==
    /\ watch
    /\ ~buildOK
    /\ pc = "select"
    /\ cur = 0
    /\ rebuildCalls > 0
    /\ startCalls = 1

\* the control loop is between two selects: starting a process, waiting for
\* the process it stopped, or rebuilding
Busy ==
    \/ pc \in {"top", "rebuild"}
    \/ pc = "restartWait" /\ cur /= 0

\* C17: a restart signal pending while the control loop is busy is received
\* by the loop (or the loop ends on abort), and abort closed while the loop
\* is busy is received by the loop.
C17_PendingSignalObserved ==
    /\ (restart > 0 /\ Busy) ~> (pc \in {"absorb", "abortWait", "returned"})
    /\ (abortClosed /\ Busy) ~> (pc \in {"abortWait", "returned"})

\* C18: when Stop has delivered the SIGTERM to the running process, the
\* waitDone() that follows completes, whatever the process does with it.
C18_WaitAfterStopCompletes ==
    (pc \in {"restartWait", "abortWait"} /\ cur /= 0 /\ procs[cur].term)
    ~> (pc \in {"rebuild", "returned"})

C18_Witness ==
    /\ pc = "rebuild"
    /\ cur /= 0
    /\ procs[cur].observed
    /\ procs[cur].kill = "sent"
    /\ ~lateKill

\* C19: close(abort) is executed at most once.
C19_AbortClosedOnce == abortCloses <= 1

C19_Witness ==
    /\ abortCloses = 1
    /\ cancelled
    /\ wclosed
    /\ rpc = "returned"

\* C20: the kill timer of Stop sends no SIGKILL for a process that has
\* already exited.
C20_NoKillAfterExit == ~lateKill

=============================================================================
